---- MODULE Spec2Model ----
(***************************************************************************)
(* Amulet-Core kernel: the state-transition engine of src/src/kernel/core.rs *)
(* (validate -> runtime -> append_delta -> clocks -> materialise_event ->   *)
(* log) and the ingest path process_incoming_event, over the data model of *)
(* src/src/primitives.rs and the rights algebra of src/src/rights.rs.      *)
(*                                                                         *)
(* Representation.  A CID [b; 32] and a ReplicaID [b; 16] are written as   *)
(* the byte b (a CID written 256 * h + t is the byte h followed by 31      *)
(* bytes t); their byte strings are produced by cid_bytes and              *)
(* replica_bytes.  A rights mask is the set of its bit positions.  A       *)
(* HashMap is a function whose DOMAIN is the key set.  u64 is scaled to    *)
(* 0..U64_MAX.  A KernelError is the name of its variant; the variant      *)
(* Other carries the cause its message names.                              *)
(***************************************************************************)
EXTENDS Integers, Sequences, FiniteSets, TLC

\* ------------------------------------------------------------------ bounds
\* Stand-in for u64::MAX (the Lamport clock, vclock entries, versions).
U64_MAX == 4

\* ------------------------------------------------------- program constants
CID_LEN == 32
REPLICA_LEN == 16
U64_LEN == 8
U32_LEN == 4

CLASSIC == 0
FIPS == 1
PQC == 2
HYBRID == 3

READ == 0
WRITE == 1
DELEGATE == 2
ISSUE == 3
REVOKE == 4

\* The replica ids of the test fixtures.
TEST_REPLICA_ID_1 == 1
TEST_REPLICA_ID_2 == 2

\* ------------------------------------------------------------------ values
\* Option<T>: None and Some(v).
None == [some |-> FALSE]
Some(v) == [some |-> TRUE, value |-> v]

\* What `arg` and `returned` hold when there is no command or event.
NoEvent == [absent |-> TRUE]
NoCmd == [absent |-> TRUE]
NoSnapshot == [absent |-> TRUE]

U64 == 0..U64_MAX
Replicas == {TEST_REPLICA_ID_1, TEST_REPLICA_ID_2}

Max(a, b) == IF a >= b THEN a ELSE b

\* u64 addition as the release build computes it (wrapping).
u64_add(a, b) == (a + b) % (U64_MAX + 1)

\* KernelError values.
CapabilityNotFound == "CapabilityNotFound"
AlgorithmSuiteMismatch == "AlgorithmSuiteMismatch"
CapabilityExpired == "CapabilityExpired"
InsufficientRights == "InsufficientRights"
InvalidCommandLClock == "InvalidCommandLClock"
RuntimeError == "RuntimeError"
CryptoInvalidSignature == "Crypto(InvalidSignature)"
CryptoHashingFailure == "Crypto(HashingFailure)"
\* KernelError::Other("Replica has reached maximum Lamport clock value ...")
LamportOverflow == "Other(LamportOverflow)"
\* KernelError::Other("Invalid AlgSuite tag in command: ...")
UnsupportedSuite == "Other(InvalidAlgSuiteTag)"
\* KernelError::Other("Failed to get signed bytes from command payload: ...")
SignedBytesFailure == "Other(SignedBytes)"
\* KernelError::Other(..) returned by a runtime
RuntimeOther == "Other(Runtime)"
InvNewExists == "InvariantViolation(New entity CID already exists in state)"
InvVersion == "InvariantViolation(Entity version monotonicity violated)"
InvNotFound == "InvariantViolation(Updated entity not found in state)"
InvLClock == "InvariantViolation(Entity lclock must equal event lclock)"
InvariantViolations == {InvNewExists, InvVersion, InvNotFound, InvLClock}
\* Not a KernelError: the call aborts with "attempt to add with overflow".
Panic == "panic(attempt to add with overflow)"
Ok == "Ok"

\* ---------------------------------------------------------------- AlgSuite
\* Mutation: every byte accepted as a suite tag.
AlgSuite_try_from_any(tag) == TRUE

\* AlgSuite::try_from(u8): Ok on the four defined tags, Err otherwise.
AlgSuite_try_from(tag) == tag \in {CLASSIC, FIPS, PQC, HYBRID}

\* ------------------------------------------------------------------ rights
\* Mutation: no right implied.
canonicalise_nothing_implied(mask) == mask

canonicalise(mask) == IF WRITE \in mask THEN mask \cup {READ} ELSE mask

sufficient(have, need) == (canonicalise(have) \cap need) = need

\* ------------------------------------------------------------------ VClock
vc_get(vc, r) == IF r \in DOMAIN vc THEN vc[r] ELSE 0

EmptyVC == [r \in {} |-> 0]

\* Mutation: the other clock's entries written over the receiver's.
merge_into_overwrite(self, other) ==
    [r \in (DOMAIN self) \cup (DOMAIN other) |->
        IF r \in DOMAIN other THEN other[r] ELSE self[r]]

\* VClock::merge_into(self, other): the new value of self.
merge_into(self, other) ==
    [r \in (DOMAIN self) \cup (DOMAIN other) |->
        IF r \in DOMAIN other THEN Max(vc_get(self, r), other[r]) ELSE self[r]]

\* HashMap::insert(k, v)
map_insert(m, k, v) == [x \in (DOMAIN m) \cup {k} |-> IF x = k THEN v ELSE m[x]]

\* --------------------------------------------------------- byte encodings
\* Mutation: the most significant byte first.
RECURSIVE to_be_bytes(_, _)
to_be_bytes(n, w) == IF w = 0 THEN <<>> ELSE to_be_bytes(n \div 256, w - 1) \o <<n % 256>>

\* u64::to_le_bytes / u32::to_le_bytes: w bytes, least significant first.
RECURSIVE to_le_bytes(_, _)
to_le_bytes(n, w) == IF w = 0 THEN <<>> ELSE <<n % 256>> \o to_le_bytes(n \div 256, w - 1)

\* The 32 bytes of the CID [b; 32] and the 16 bytes of the ReplicaID [b; 16].
cid_bytes(b) ==
    IF b < 256 THEN [i \in 1..CID_LEN |-> b]
    ELSE [i \in 1..CID_LEN |-> IF i = 1 THEN b \div 256 ELSE b % 256]

\* The derived Ord of [u8; N]: lexicographic comparison of two byte arrays.
lex_less(a, b) ==
    \E i \in 1..Len(a) : a[i] < b[i] /\ \A j \in 1..(i - 1) : a[j] = b[j]
replica_bytes(b) == [i \in 1..REPLICA_LEN |-> b]

RECURSIVE concat_all(_)
concat_all(ss) == IF ss = <<>> THEN <<>> ELSE Head(ss) \o concat_all(Tail(ss))

\* Ascending sequence of the elements of a finite set of numbers.
RECURSIVE sorted_keys(_)
sorted_keys(S) ==
    IF S = {} THEN <<>>
    ELSE LET m == CHOOSE x \in S : \A y \in S : x <= y
         IN <<m>> \o sorted_keys(S \ {m})

\* ------------------------------------------------- event hash input (CID)
append_event_identity_for_digest(caused_by, event_lclock, event_replica, suite_tag) ==
    cid_bytes(caused_by) \o to_le_bytes(event_lclock, U64_LEN)
        \o replica_bytes(event_replica) \o <<suite_tag>>

\* Mutation: the CIDs appended in the order given.
append_cids_unsorted(cids) ==
    concat_all([i \in 1..Len(cids) |-> cid_bytes(cids[i])])

\* sort_unstable on the [u8; 32] values, then their bytes one after the other.
append_cids_for_digest(cids) ==
    LET sorted_cids == SortSeq(cids, LAMBDA a, b : lex_less(cid_bytes(a), cid_bytes(b)))
    IN concat_all([i \in 1..Len(sorted_cids) |-> cid_bytes(sorted_cids[i])])

append_vector_clock_for_digest(vclock) ==
    LET ks == sorted_keys(DOMAIN vclock)
    IN <<1>> \o concat_all([i \in 1..Len(ks) |->
                  replica_bytes(ks[i]) \o to_le_bytes(vclock[ks[i]], U64_LEN)])

get_event_hash_input(caused_by, event_lclock, event_replica, suite_tag, new_cids, updated_cids, vclock, reserved) ==
    append_event_identity_for_digest(caused_by, event_lclock, event_replica, suite_tag)
        \o append_cids_for_digest(new_cids)
        \o append_cids_for_digest(updated_cids)
        \o append_vector_clock_for_digest(vclock)
        \o to_le_bytes(Len(reserved), U32_LEN) \o reserved

\* CryptoProvider::hash is a contract: deterministic, collision-free here.  The
\* digest of data under a suite is written as the pair itself.
provider_hash(data, suite) == [suite |-> suite, data |-> data]

\* generate_cid: Ok(cid) or an error; hash_outcome is what the provider answers.
generate_cid(data, alg_suite_tag, hash_outcome) ==
    IF ~AlgSuite_try_from(alg_suite_tag) THEN [err |-> "Other(InvalidAlgSuiteTag in generate_cid)"]
    ELSE IF hash_outcome # Ok THEN [err |-> hash_outcome]
    ELSE [err |-> Ok, cid |-> provider_hash(data, alg_suite_tag)]

\* ------------------------------------------------------------- kernel state
VARIABLES
    local_lc,       \* Kernel.local_lc
    local_vc,       \* Kernel.local_vc
    capabilities,   \* Kernel.state.capabilities : CID -> Capability
    entities,       \* Kernel.state.entities : CID -> Entity
    event_log,      \* Kernel.state.event_log
    op,             \* the call that has just returned: "apply" or
                    \* "process_incoming_event"; "idle" between calls
    arg,            \* its argument: the Command or the Event
    result,         \* what it returned: Ok or the KernelError
    returned,       \* the Event apply returned, NoEvent otherwise
    pre             \* the kernel's fields when the call was made

kernel == <<local_lc, local_vc, capabilities, entities, event_log>>
vars == <<local_lc, local_vc, capabilities, entities, event_log, op, arg, result, returned, pre>>

\* Kernel.replica_id, fixed at construction.
replica_id == TEST_REPLICA_ID_1

snapshot == [local_lc |-> local_lc, local_vc |-> local_vc, capabilities |-> capabilities,
             entities |-> entities, event_log |-> event_log]

\* ------------------------------------------------------------- validation
\* Mutation: the provider's answer is not consulted.
verify_signature_unverified(caps, command) ==
    IF ~AlgSuite_try_from(command.alg_suite) THEN UnsupportedSuite
    ELSE IF ~command.payload.signable THEN SignedBytesFailure
    ELSE IF command.capability \notin DOMAIN caps THEN CapabilityNotFound
    ELSE Ok

\* Kernel::verify_signature: suite conversion, signed bytes, capability
\* lookup, provider verify (the provider rejects a forged signature).
verify_signature(caps, command) ==
    IF ~AlgSuite_try_from(command.alg_suite) THEN UnsupportedSuite
    ELSE IF ~command.payload.signable THEN SignedBytesFailure
    ELSE IF command.capability \notin DOMAIN caps THEN CapabilityNotFound
    ELSE IF command.signature # "valid" THEN CryptoInvalidSignature
    ELSE Ok

\* Mutation: the held mask compared without its implied rights.
rights_sufficient_uncanonical(capability, cmd_payload) ==
    IF (capability.rights \cap cmd_payload.required_rights) = cmd_payload.required_rights
    THEN Ok ELSE InsufficientRights

\* Kernel::rights_sufficient
rights_sufficient(capability, cmd_payload) ==
    IF sufficient(capability.rights, cmd_payload.required_rights) THEN Ok
    ELSE InsufficientRights

\* Mutation: the boundary current_lc = expiry taken as not yet expired.
capability_expired_strict(cap, current_lc) ==
    cap.expiry_lc.some /\ current_lc > cap.expiry_lc.value

\* The expiry test of validate_command: Some(expiry) and current_lc >= expiry.
capability_expired(cap, current_lc) ==
    cap.expiry_lc.some /\ current_lc >= cap.expiry_lc.value

\* Mutation: a command at the kernel's own lclock taken as stale.
command_lclock_stale_or_equal(command, current_lc) == command.lclock <= current_lc

\* The lclock test of validate_command.
command_lclock_stale(command, current_lc) == command.lclock < current_lc

\* Mutation: the two tags never compared.
suite_tags_differ_never(cmd_alg_suite_tag, cap_alg_suite_tag) == FALSE

\* The suite test of validate_command: the two u8 tags compared directly.
suite_tags_differ(cmd_alg_suite_tag, cap_alg_suite_tag) ==
    cmd_alg_suite_tag # cap_alg_suite_tag

\* Kernel::validate_command(command, current_lc): Ok or the first error.
validate_command(caps, command, current_lc) ==
    IF command.capability \notin DOMAIN caps THEN CapabilityNotFound
    ELSE LET cap == caps[command.capability] IN
         IF suite_tags_differ(command.alg_suite, cap.alg_suite) THEN AlgorithmSuiteMismatch
         ELSE IF capability_expired(cap, current_lc) THEN CapabilityExpired
         ELSE IF verify_signature(caps, command) # Ok THEN verify_signature(caps, command)
         ELSE IF rights_sufficient(cap, command.payload) # Ok
              THEN rights_sufficient(cap, command.payload)
         ELSE IF command_lclock_stale(command, current_lc) THEN InvalidCommandLClock
         ELSE Ok

\* ------------------------------------------------------------ append_delta
\* prev.header.version + 1 in u64: a build with overflow checks (debug) aborts
\* at u64::MAX, a build without them (release) wraps to 0.
version_succ(v) == u64_add(v, 1)
version_overflows(v) == v = U64_MAX
OverflowChecks == BOOLEAN

all_entities(delta) == delta.new_entities \o delta.updated_entities

\* Check 2 of append_delta: every updated entity exists with version + 1.
RECURSIVE check_updated(_, _, _)
check_updated(ents, upds, overflow_checks) ==
    IF upds = <<>> THEN Ok
    ELSE LET upd == Head(upds) IN
         IF upd.id \notin DOMAIN ents THEN InvNotFound
         ELSE IF overflow_checks /\ version_overflows(ents[upd.id].version) THEN Panic
         ELSE IF upd.version # version_succ(ents[upd.id].version) THEN InvVersion
         ELSE check_updated(ents, Tail(upds), overflow_checks)

\* Mutation: a new entity's CID never looked up.
new_entity_exists_never(ents, news) == FALSE

\* Check 1 of append_delta: some new entity's CID is already a key.
new_entity_exists(ents, news) == \E i \in 1..Len(news) : news[i].id \in DOMAIN ents

\* The checks of Kernel::append_delta, in order: Ok or the first violation.
append_delta_check(ents, delta, lclock_new, overflow_checks) ==
    IF new_entity_exists(ents, delta.new_entities)
    THEN InvNewExists
    ELSE IF check_updated(ents, delta.updated_entities, overflow_checks) # Ok
    THEN check_updated(ents, delta.updated_entities, overflow_checks)
    ELSE IF \E i \in 1..Len(all_entities(delta)) : all_entities(delta)[i].lclock # lclock_new
    THEN InvLClock
    ELSE Ok

\* Mutation: every entity of the delta filed under each of the delta's CIDs,
\* the last one staying.
insert_all_misfiled(ents, es) ==
    [k \in DOMAIN ents \cup { es[i].id : i \in 1..Len(es) } |->
        IF k \in { es[i].id : i \in 1..Len(es) } THEN es[Len(es)] ELSE ents[k]]

\* Step 4 of append_delta: insert the entities one after the other.
RECURSIVE insert_all(_, _)
insert_all(ents, es) ==
    IF es = <<>> THEN ents
    ELSE insert_all(map_insert(ents, Head(es).id, Head(es)), Tail(es))

\* Mutation: the new entities written before the updated ones are checked.
append_delta_eager(ents, delta, lclock_new, overflow_checks) ==
    IF new_entity_exists(ents, delta.new_entities) THEN ents
    ELSE IF append_delta_check(ents, delta, lclock_new, overflow_checks) # Ok
    THEN insert_all(ents, delta.new_entities)
    ELSE insert_all(ents, all_entities(delta))

\* Kernel::append_delta: the entity map after the call.
append_delta(ents, delta, lclock_new, overflow_checks) ==
    IF append_delta_check(ents, delta, lclock_new, overflow_checks) # Ok THEN ents
    ELSE insert_all(ents, all_entities(delta))

\* ------------------------------------------------------------------- apply
\* Mutation: the command's proposed lclock taken as it is.
lamport_advance_command_only(cmd_lclock, lc) == cmd_lclock

\* Mutation: the command's proposed lclock ignored.
lamport_advance_local_only(cmd_lclock, lc) == u64_add(lc, 1)

\* Step 2 of apply: lclock_new = max(cmd.lclock, local_lc + 1).
lamport_advance(cmd_lclock, lc) == Max(cmd_lclock, u64_add(lc, 1))

\* Mutation: a guard that compares past the largest value and never fires.
lamport_overflow_never(lc) == lc > U64_MAX

\* The Lamport overflow guard of apply.
lamport_overflow(lc) == lc = U64_MAX

\* Mutation: the event put at the front of the log.
log_push_front(log, event) == <<event>> \o log

\* self.state.event_log.push(event)
log_push(log, event) == Append(log, event)

\* Mutation: the runtime's lclock values kept.
stamp_entities_skipped(es, lclock_new) == es

\* The kernel stamps lclock_new on every entity of the runtime's delta.
stamp_entities(es, lclock_new) == [i \in 1..Len(es) |-> [es[i] EXCEPT !.lclock = lclock_new]]
stamp_delta(delta, lclock_new) ==
    [new_entities |-> stamp_entities(delta.new_entities, lclock_new),
     updated_entities |-> stamp_entities(delta.updated_entities, lclock_new)]

\* Mutation: the local replica's entry counted up from its entry of local_vc.
vc_for_event_self_incremented(lvc, command, lclock_new) ==
    LET merged == IF command.vclock.some THEN merge_into(lvc, command.vclock.value) ELSE lvc
    IN map_insert(merged, replica_id, vc_get(lvc, replica_id) + 1)

\* Mutation: the command's vclock not merged.
vc_for_event_no_merge(lvc, command, lclock_new) == map_insert(lvc, replica_id, lclock_new)

\* Step 6 of apply: the vector clock of the new event.
vc_for_event(lvc, command, lclock_new) ==
    LET merged == IF command.vclock.some THEN merge_into(lvc, command.vclock.value) ELSE lvc
    IN map_insert(merged, replica_id, lclock_new)

\* Mutation: the CIDs listed last to first.
entity_cids_reversed(es) == [i \in 1..Len(es) |-> es[Len(es) + 1 - i].id]

\* delta.*.iter().map(|e| e.header.id).collect()
entity_cids(es) == [i \in 1..Len(es) |-> es[i].id]

\* Kernel::materialise_event: [err |-> Ok, event |-> e] or [err |-> error].
materialise_event(command, delta, lclock_new, vc_new, hash_outcome) ==
    LET new_cids == entity_cids(delta.new_entities)
        updated_cids == entity_cids(delta.updated_entities)
        reserved_for_new_event == <<>>
        input == get_event_hash_input(command.id, lclock_new, replica_id, command.alg_suite,
                                      new_cids, updated_cids, vc_new, reserved_for_new_event)
        event_id == generate_cid(input, command.alg_suite, hash_outcome)
    IN IF event_id.err # Ok THEN [err |-> event_id.err]
       ELSE [err |-> Ok,
             event |-> [id |-> event_id.cid,
                        alg_suite |-> command.alg_suite,
                        replica |-> replica_id,
                        caused_by |-> command.id,
                        lclock |-> lclock_new,
                        new_entities |-> new_cids,
                        updated_entities |-> updated_cids,
                        vclock |-> vc_new,
                        reserved |-> reserved_for_new_event]]

\* Runtime::execute(state, command): the delta, or the error, the pluggable
\* runtime answers; here the runtime reads it off the command's payload.
runtime_execute(ents, command) == command.payload.exec

\* An apply that returns err before any field is written.
apply_rejects(err) ==
    /\ result' = err
    /\ returned' = NoEvent
    /\ UNCHANGED kernel

\* Steps 2..7 of apply for a validated command: runtime, stamping,
\* append_delta, clocks, event, log.
apply_commit(command, hash_outcome, overflow_checks) ==
    LET lclock_new == lamport_advance(command.lclock, local_lc)
        rt == runtime_execute(entities, command)
    IN IF rt.err # Ok THEN apply_rejects(rt.err)
       ELSE LET delta == stamp_delta(rt.delta, lclock_new)
                checked == append_delta_check(entities, delta, lclock_new, overflow_checks)
                vc_new == vc_for_event(local_vc, command, lclock_new)
                ev == materialise_event(command, delta, lclock_new, vc_new, hash_outcome)
            IN IF checked # Ok THEN apply_rejects(checked)
               ELSE /\ entities' = append_delta(entities, delta, lclock_new, overflow_checks)
                    /\ local_lc' = lclock_new
                    /\ local_vc' = vc_new
                    /\ capabilities' = capabilities
                    /\ IF ev.err # Ok
                       THEN /\ result' = ev.err
                            /\ returned' = NoEvent
                            /\ event_log' = event_log
                       ELSE /\ result' = Ok
                            /\ returned' = ev.event
                            /\ event_log' = log_push(event_log, ev.event)

\* Kernel::apply(command)
apply(command, hash_outcome, overflow_checks) ==
    /\ op = "idle"
    /\ op' = "apply"
    /\ arg' = command
    /\ pre' = snapshot
    /\ IF lamport_overflow(local_lc) THEN apply_rejects(LamportOverflow)
       ELSE IF validate_command(capabilities, command, local_lc) # Ok
       THEN apply_rejects(validate_command(capabilities, command, local_lc))
       ELSE apply_commit(command, hash_outcome, overflow_checks)

\* Mutation: the incoming event appended to the log.
process_incoming_event_logged(evt) ==
    /\ op = "idle"
    /\ op' = "process_incoming_event"
    /\ arg' = evt
    /\ pre' = snapshot
    /\ local_lc' = Max(local_lc, evt.lclock)
    /\ local_vc' = merge_into(local_vc, evt.vclock)
    /\ event_log' = Append(event_log, evt)
    /\ result' = Ok
    /\ returned' = NoEvent
    /\ UNCHANGED <<capabilities, entities>>

\* Mutation: the ingest merges the vclock and leaves local_lc alone.
process_incoming_event_clock_kept(evt) ==
    /\ op = "idle"
    /\ op' = "process_incoming_event"
    /\ arg' = evt
    /\ pre' = snapshot
    /\ local_vc' = merge_into(local_vc, evt.vclock)
    /\ result' = Ok
    /\ returned' = NoEvent
    /\ UNCHANGED <<local_lc, capabilities, entities, event_log>>

\* Mutation: the ingest resets the entity map.
process_incoming_event_forgetting(evt) ==
    /\ op = "idle"
    /\ op' = "process_incoming_event"
    /\ arg' = evt
    /\ pre' = snapshot
    /\ local_lc' = Max(local_lc, evt.lclock)
    /\ local_vc' = merge_into(local_vc, evt.vclock)
    /\ entities' = [c \in {} |-> 0]
    /\ result' = Ok
    /\ returned' = NoEvent
    /\ UNCHANGED <<capabilities, event_log>>

\* Kernel::process_incoming_event(evt)
process_incoming_event(evt) ==
    /\ op = "idle"
    /\ op' = "process_incoming_event"
    /\ arg' = evt
    /\ pre' = snapshot
    /\ local_lc' = Max(local_lc, evt.lclock)
    /\ local_vc' = merge_into(local_vc, evt.vclock)
    /\ result' = Ok
    /\ returned' = NoEvent
    /\ UNCHANGED <<capabilities, entities, event_log>>

\* Kernel::append_delta(delta, lclock_new) called on its own (it is pub).
call_append_delta(delta, lclock_new, overflow_checks) ==
    /\ op = "idle"
    /\ op' = "append_delta"
    /\ arg' = [delta |-> delta, lclock_new |-> lclock_new]
    /\ pre' = snapshot
    /\ result' = append_delta_check(entities, delta, lclock_new, overflow_checks)
    /\ entities' = append_delta(entities, delta, lclock_new, overflow_checks)
    /\ returned' = NoEvent
    /\ UNCHANGED <<local_lc, local_vc, capabilities, event_log>>

\* get_event_hash_input called on its own (get_event_hash_input_for_test);
\* the vclock is built by inserting its entries one after the other.
RECURSIVE vclock_from_inserts(_)
vclock_from_inserts(inserts) ==
    IF inserts = <<>> THEN EmptyVC
    ELSE map_insert(vclock_from_inserts(SubSeq(inserts, 1, Len(inserts) - 1)),
                    inserts[Len(inserts)][1], inserts[Len(inserts)][2])

call_get_event_hash_input(in) ==
    /\ op = "idle"
    /\ op' = "get_event_hash_input"
    /\ arg' = in
    /\ pre' = snapshot
    /\ result' = get_event_hash_input(in.caused_by, in.lclock, in.replica, in.alg_suite,
                                      in.new_cids, in.updated_cids,
                                      vclock_from_inserts(in.vclock_inserts), in.reserved)
    /\ returned' = NoEvent
    /\ UNCHANGED kernel

\* VClock::merge_into called on its own.
call_merge_into(a, b) ==
    /\ op = "idle"
    /\ op' = "merge_into"
    /\ arg' = [self |-> a, other |-> b]
    /\ pre' = snapshot
    /\ result' = merge_into(a, b)
    /\ returned' = NoEvent
    /\ UNCHANGED kernel

\* rights::canonicalise and rights::sufficient called on their own.
call_sufficient(have, need) ==
    /\ op = "idle"
    /\ op' = "sufficient"
    /\ arg' = [have |-> have, need |-> need]
    /\ pre' = snapshot
    /\ result' = [canonical |-> canonicalise(have), sufficient |-> sufficient(have, need)]
    /\ returned' = NoEvent
    /\ UNCHANGED kernel

\* Kernel::materialise_event called on its own.
call_materialise_event(command, delta, lclock_new, vc_new, hash_outcome) ==
    /\ op = "idle"
    /\ op' = "materialise_event"
    /\ arg' = [command |-> command, delta |-> delta, lclock_new |-> lclock_new, vc_new |-> vc_new]
    /\ pre' = snapshot
    /\ LET ev == materialise_event(command, delta, lclock_new, vc_new, hash_outcome)
       IN /\ result' = ev.err
          /\ returned' = IF ev.err = Ok THEN ev.event ELSE NoEvent
    /\ UNCHANGED kernel

\* The caller has taken the returned value; the kernel waits for the next call.
caller_continues ==
    /\ op # "idle"
    /\ op' = "idle"
    /\ arg' = NoCmd
    /\ result' = Ok
    /\ returned' = NoEvent
    /\ pre' = NoSnapshot
    /\ UNCHANGED kernel

\* ------------------------------------------------------------------ inputs
\* The capabilities the embedding layer installs (fixtures of the
\* tests): no expiry, an expiry, and a suite tag outside the defined set.
Capability(id, alg_suite, rights, expiry_lc) ==
    [id |-> id, alg_suite |-> alg_suite, rights |-> rights, expiry_lc |-> expiry_lc]

InitialCapabilities ==
    (1 :> Capability(1, CLASSIC, {WRITE}, None))
    @@ (2 :> Capability(2, FIPS, {READ, 16}, Some(2)))
    @@ (3 :> Capability(3, 7, {READ, WRITE, DELEGATE, ISSUE, REVOKE}, Some(1)))

CapabilityRefs == {1, 2, 3, 4}
SuiteTags == {CLASSIC, FIPS, 7}
CommandIds == {1, 2}
EntityIds == {50, 51}

Entity(id, version, lclock) == [id |-> id, version |-> version, lclock |-> lclock]
Delta(new, upd) == [err |-> Ok, delta |-> [new_entities |-> new, updated_entities |-> upd]]
Payload(need, signable, exec) == [required_rights |-> need, signable |-> signable, exec |-> exec]

NoopPayload == Payload({}, TRUE, Delta(<<>>, <<>>))

\* Payloads that differ in what validation reads.
ValidationPayloads ==
    { NoopPayload,
      Payload({READ}, TRUE, Delta(<<>>, <<>>)),
      Payload({ISSUE}, TRUE, Delta(<<>>, <<>>)),
      Payload({}, FALSE, Delta(<<>>, <<>>)) }

\* Payloads that differ in what the runtime answers for them.
RuntimePayloads ==
    { Payload({}, TRUE, [err |-> RuntimeError]),
      Payload({}, TRUE, [err |-> RuntimeOther]),
      Payload({}, TRUE, Delta(<<Entity(50, 0, U64_MAX)>>, <<>>)),
      Payload({}, TRUE, Delta(<<Entity(51, 1, 0), Entity(50, 0, 0)>>, <<>>)),
      Payload({}, TRUE, Delta(<<>>, <<Entity(50, 1, 0)>>)),
      Payload({}, TRUE, Delta(<<Entity(51, 0, 0)>>, <<Entity(50, 2, 0)>>)),
      Payload({}, TRUE, Delta(<<>>, <<Entity(50, 3, 0)>>)) }

CommandVClocks ==
    { None,
      Some(EmptyVC),
      Some((TEST_REPLICA_ID_2 :> 2)),
      Some((TEST_REPLICA_ID_1 :> U64_MAX) @@ (TEST_REPLICA_ID_2 :> 1)) }

Command(id, alg_suite, replica, capability, lclock, vclock, payload, signature) ==
    [id |-> id, alg_suite |-> alg_suite, replica |-> replica, capability |-> capability,
     lclock |-> lclock, vclock |-> vclock, payload |-> payload, signature |-> signature]

\* Commands that differ in what validation reads: every combination of suite
\* tag, capability, rights, signable payload, signature and a low or high lclock.
ValidationCommands ==
    { Command(1, s, TEST_REPLICA_ID_2, k, l, None, p, g) :
        s \in SuiteTags, k \in CapabilityRefs, l \in {0, U64_MAX - 1}, p \in ValidationPayloads,
        g \in {"valid", "forged"} }

\* Well-formed commands that differ in their clocks.
ClockCommands ==
    { Command(1, CLASSIC, TEST_REPLICA_ID_2, 1, l, v, NoopPayload, "valid") :
        l \in U64, v \in CommandVClocks }
    \cup { Command(1, FIPS, TEST_REPLICA_ID_2, 2, l, None, NoopPayload, "valid") : l \in U64 }

\* Well-formed commands that differ in what the runtime answers.
RuntimeCommands ==
    { Command(2, CLASSIC, TEST_REPLICA_ID_1, 1, 0, None, p, "valid") : p \in RuntimePayloads }

\* One command for each way validation rejects.
RejectedCommands ==
    { Command(2, CLASSIC, TEST_REPLICA_ID_1, 4, 0, None, NoopPayload, "valid"),
      Command(2, FIPS, TEST_REPLICA_ID_1, 1, 0, None, NoopPayload, "valid"),
      Command(2, 7, TEST_REPLICA_ID_1, 3, 0, None, NoopPayload, "valid"),
      Command(2, CLASSIC, TEST_REPLICA_ID_1, 1, 0, None, NoopPayload, "forged"),
      Command(2, CLASSIC, TEST_REPLICA_ID_1, 1, 0, None,
              Payload({}, FALSE, Delta(<<>>, <<>>)), "valid"),
      Command(2, CLASSIC, TEST_REPLICA_ID_1, 1, 0, None,
              Payload({ISSUE}, TRUE, Delta(<<>>, <<>>)), "valid") }

Commands == ClockCommands \cup RuntimeCommands \cup RejectedCommands

HashOutcomes == {Ok, CryptoHashingFailure}

\* Events of peer replicas: an empty one of a peer, and one that names this
\* replica, an undefined suite, entities and reserved bytes.
Event(id, alg_suite, replica, caused_by, lclock, new_entities, updated_entities, vclock, reserved) ==
    [id |-> id, alg_suite |-> alg_suite, replica |-> replica, caused_by |-> caused_by,
     lclock |-> lclock, new_entities |-> new_entities, updated_entities |-> updated_entities,
     vclock |-> vclock, reserved |-> reserved]

IncomingEvents ==
    UNION { { Event(200, CLASSIC, TEST_REPLICA_ID_2, 9, l, <<>>, <<>>, v, <<>>),
              Event(201, 7, TEST_REPLICA_ID_1, 1, l, <<50>>, <<51>>, v, <<1>>) } :
        l \in {0, 2, U64_MAX},
        v \in { EmptyVC, (TEST_REPLICA_ID_2 :> 3),
                (TEST_REPLICA_ID_1 :> U64_MAX - 1) @@ (TEST_REPLICA_ID_2 :> 1) } }

\* ----------------------------------------------------------- specification
\* kernel.state.capabilities.insert(cap.id, cap) for each capability of
\* InitialCapabilities: the kernel has no operation that issues capabilities,
\* its owner writes them into the pub field state between calls.
install_capabilities ==
    /\ op = "idle"
    /\ capabilities' =
          [id \in (DOMAIN capabilities) \cup (DOMAIN InitialCapabilities) |->
              IF id \in DOMAIN InitialCapabilities THEN InitialCapabilities[id]
              ELSE capabilities[id]]
    /\ UNCHANGED <<local_lc, local_vc, entities, event_log, op, arg, result, returned, pre>>

\* Kernel::new: SystemState::default(), local_lc 0, an empty local_vc.
Init ==
    /\ local_lc = 0
    /\ local_vc = EmptyVC
    /\ capabilities = [c \in {} |-> 0]
    /\ entities = [c \in {} |-> 0]
    /\ event_log = <<>>
    /\ op = "idle"
    /\ arg = NoCmd
    /\ result = Ok
    /\ returned = NoEvent
    /\ pre = NoSnapshot

Next ==
    \/ \E command \in Commands, hash_outcome \in HashOutcomes, overflow_checks \in OverflowChecks :
          apply(command, hash_outcome, overflow_checks)
    \/ \E evt \in IncomingEvents : process_incoming_event(evt)
    \/ install_capabilities
    \/ caller_continues

Spec == Init /\ [][Next]_vars

\* The same kernel, driven by the commands that differ in what validation reads.
ValidationEvents ==
    { [lclock |-> l, vclock |-> (TEST_REPLICA_ID_2 :> 1)] : l \in U64 }

NextValidation ==
    \/ \E command \in ValidationCommands, hash_outcome \in HashOutcomes,
             overflow_checks \in OverflowChecks :
          apply(command, hash_outcome, overflow_checks)
    \/ \E evt \in ValidationEvents : process_incoming_event(evt)
    \/ install_capabilities
    \/ caller_continues

SpecValidation == Init /\ [][NextValidation]_vars

\* The same kernel, driven by deltas: append_delta called on its own and
\* through apply with the runtimes' deltas.
DeltaVersions == {0, 1, 2, U64_MAX}
DeltaLClocks == {1, 2}
DeltaNew ==
    {<<>>}
    \cup { <<Entity(50, v, l)>> : v \in {0, U64_MAX}, l \in DeltaLClocks }
    \cup { <<Entity(51, 0, 1), Entity(50, 0, l)>> : l \in DeltaLClocks }
    \cup { <<Entity(51, 0, 1), Entity(51, 1, 1)>> }
    \cup { <<Entity(52, 0, 1)>> }
DeltaUpdated ==
    {<<>>}
    \cup { <<Entity(50, v, l)>> : v \in DeltaVersions, l \in DeltaLClocks }
    \cup { <<Entity(51, 1, 1), Entity(50, v, l)>> : v \in {1, 2}, l \in DeltaLClocks }
    \cup { <<Entity(51, 1, 1), Entity(51, 1, 1)>> }
    \cup { <<Entity(50, 0, 1), Entity(51, 1, 1)>> }
Deltas ==
    { [new_entities |-> n, updated_entities |-> u] : n \in DeltaNew, u \in DeltaUpdated }

\* Well-formed commands for the runtimes' deltas, at lclocks that let one
\* commit follow another.
DeltaCommands ==
    { Command(2, CLASSIC, TEST_REPLICA_ID_2, 1, l, None, p, "valid") :
        l \in {0, 1, 2}, p \in RuntimePayloads }

NextDelta ==
    \/ \E delta \in Deltas, lclock_new \in DeltaLClocks, overflow_checks \in OverflowChecks :
          call_append_delta(delta, lclock_new, overflow_checks)
    \/ \E command \in DeltaCommands, hash_outcome \in HashOutcomes,
             overflow_checks \in OverflowChecks :
          apply(command, hash_outcome, overflow_checks)
    \/ install_capabilities
    \/ caller_continues

SpecDelta == Init /\ [][NextDelta]_vars

\* The pure functions of the crate, each called on its own with inputs drawn
\* from bounded sets.
HashCidLists == { <<>>, <<2>>, <<3, 2>>, <<3, 513, 2>>, <<2, 2>> }
HashLClocks == { 0, 10, 258 }
HashVClockInserts ==
    { <<>>,
      <<<<TEST_REPLICA_ID_1, 10>>, <<TEST_REPLICA_ID_2, 5>>>>,
      <<<<TEST_REPLICA_ID_2, 5>>, <<TEST_REPLICA_ID_1, 10>>>>,
      <<<<TEST_REPLICA_ID_2, 258>>, <<TEST_REPLICA_ID_1, 0>>>>,
      <<<<TEST_REPLICA_ID_2, 1>>>> }
HashReserved == { <<>>, <<1, 2, 3>>, <<4, 5, 6>>, <<0>> }
HashInputs ==
    { [caused_by |-> 1, lclock |-> l, replica |-> r, alg_suite |-> s, new_cids |-> n,
       updated_cids |-> u, vclock_inserts |-> v, reserved |-> x] :
        l \in HashLClocks, r \in Replicas, s \in {CLASSIC, 7}, n \in HashCidLists,
        u \in HashCidLists, v \in HashVClockInserts, x \in HashReserved }

MaterialiseDeltas ==
    { [new_entities |-> n, updated_entities |-> u] :
        n \in { <<>>, <<Entity(3, 0, 1), Entity(513, 0, 1), Entity(2, 0, 1)>> },
        u \in { <<>>, <<Entity(51, 2, 1), Entity(50, 1, 1)>> } }
MaterialiseCommands ==
    { Command(1, s, TEST_REPLICA_ID_2, 1, 0, None, NoopPayload, "valid") : s \in {FIPS, 7} }

\* Vector clocks over three replicas, and masks over the core bits and two
\* extension bits.
VClockReplicas == Replicas \cup {3}
VClocks == UNION { [ks -> 0..2] : ks \in SUBSET VClockReplicas }
RightBits == {READ, WRITE, DELEGATE, ISSUE, REVOKE, 16, 31}
Masks == SUBSET RightBits

NextFunctions ==
    \/ \E a \in VClocks, b \in VClocks : call_merge_into(a, b)
    \/ \E have \in Masks, need \in Masks : call_sufficient(have, need)
    \/ \E in \in HashInputs : call_get_event_hash_input(in)
    \/ \E command \in MaterialiseCommands, delta \in MaterialiseDeltas, lclock_new \in HashLClocks,
             v \in HashVClockInserts, hash_outcome \in HashOutcomes :
          call_materialise_event(command, delta, lclock_new, vclock_from_inserts(v), hash_outcome)
    \/ caller_continues

SpecFunctions == Init /\ [][NextFunctions]_vars

\* ======================================================================
\* Properties
\* ======================================================================
ApplyReturned == op = "apply"
ApplyOk == op = "apply" /\ result = Ok
ApplyErr == op = "apply" /\ result # Ok

\* The vclock a command carries; an absent vclock reads as empty.
carried_vclock(command) == IF command.vclock.some THEN command.vclock.value ELSE EmptyVC

\* The capability the command of the last apply referenced, when it exists.
CapabilityResolved == ApplyReturned /\ arg.capability \in DOMAIN pre.capabilities
ReferencedCapability == pre.capabilities[arg.capability]

\* C1: every apply that returns an error, from whichever step, leaves
\* capabilities, entities, event_log, local_lc and local_vc as they were
\* before the call.
C1_ErrorLeavesStateUnchanged == ApplyErr => snapshot = pre

\* C2: with local_lc at u64::MAX every apply returns the Lamport overflow
\* error, whatever the command is.
C2_OverflowRefusesEveryCommand ==
    (ApplyReturned /\ pre.local_lc = U64_MAX) => result = LamportOverflow

\* An apply at u64::MAX of a command whose capability is missing, whose suite
\* mismatches or whose signature is forged.
C2_Witness ==
    /\ ApplyReturned /\ pre.local_lc = U64_MAX /\ result = LamportOverflow
    /\ \/ arg.capability \notin DOMAIN pre.capabilities
       \/ arg.signature = "forged"
       \/ arg.alg_suite # pre.capabilities[arg.capability].alg_suite

\* C3: a successful apply from local_lc = L returns an event with
\* lclock = max(c.lclock, L + 1), leaves local_lc at that value, and never
\* leaves the u64 range (L = u64::MAX - 1 gives u64::MAX).
C3_EventLClock ==
    ApplyOk =>
        /\ pre.local_lc < U64_MAX
        /\ returned.lclock = Max(arg.lclock, pre.local_lc + 1)
        /\ local_lc = returned.lclock
        /\ returned.lclock \in U64

\* A commit from u64::MAX - 1 that lands on u64::MAX.
C3_Witness ==
    ApplyOk /\ pre.local_lc = U64_MAX - 1 /\ returned.lclock = U64_MAX
        /\ arg.lclock < U64_MAX

\* C4: the event of a successful apply has vclock[self] = lclock, for every
\* other replica the maximum of the prior local_vc entry and the command's
\* vclock entry (missing = 0, absent vclock = empty), and local_vc equals it.
C4_EventVClock ==
    ApplyOk =>
        /\ replica_id \in DOMAIN returned.vclock
        /\ returned.vclock[replica_id] = returned.lclock
        /\ \A r \in Replicas \ {replica_id} :
              vc_get(returned.vclock, r)
                  = Max(vc_get(pre.local_vc, r), vc_get(carried_vclock(arg), r))
        /\ DOMAIN returned.vclock
              = DOMAIN pre.local_vc \cup DOMAIN carried_vclock(arg) \cup {replica_id}
        /\ local_vc = returned.vclock

\* A commit whose command carries a vclock behind the local one on a peer
\* (scenario S6) and one whose command is ahead on a peer.
C4_Witness ==
    /\ ApplyOk /\ arg.vclock.some
    /\ TEST_REPLICA_ID_2 \in DOMAIN pre.local_vc
    /\ TEST_REPLICA_ID_2 \in DOMAIN arg.vclock.value
    /\ pre.local_vc[TEST_REPLICA_ID_2] > arg.vclock.value[TEST_REPLICA_ID_2]
    /\ returned.vclock[TEST_REPLICA_ID_2] = pre.local_vc[TEST_REPLICA_ID_2]

\* C5: the vclock of every committed event dominates the local_vc before the
\* apply and the command's carried vclock, in every entry, the local
\* replica's included.
C5_EventVClockDominates ==
    ApplyOk =>
        \A r \in Replicas :
            /\ vc_get(returned.vclock, r) >= vc_get(pre.local_vc, r)
            /\ vc_get(returned.vclock, r) >= vc_get(carried_vclock(arg), r)

\* C6: a successful apply appends exactly the returned event to event_log and
\* keeps every earlier entry; no other call changes the log.
C6_LogAppendOnly ==
    /\ ApplyOk =>
          /\ Len(event_log) = Len(pre.event_log) + 1
          /\ event_log[Len(event_log)] = returned
          /\ SubSeq(event_log, 1, Len(pre.event_log)) = pre.event_log
    /\ (op # "idle" /\ ~ApplyOk) => event_log = pre.event_log

\* A commit onto a log that already holds an event.
C6_Witness == ApplyOk /\ Len(pre.event_log) >= 1 /\ Len(event_log) = Len(pre.event_log) + 1

\* Preconditions 1..4 and 6..8 of apply, all but the expiry one.
OtherPreconditionsHold ==
    /\ pre.local_lc # U64_MAX
    /\ arg.capability \in DOMAIN pre.capabilities
    /\ arg.alg_suite \in {CLASSIC, FIPS, PQC, HYBRID}
    /\ arg.alg_suite = ReferencedCapability.alg_suite
    /\ arg.payload.signable
    /\ arg.signature = "valid"
    /\ (canonicalise(ReferencedCapability.rights) \cap arg.payload.required_rights)
           = arg.payload.required_rights
    /\ arg.lclock >= pre.local_lc

\* C7: with expiry_lc = Some(E), apply succeeds only when local_lc < E and, the
\* other preconditions holding, fails with CapabilityExpired when
\* local_lc >= E; a capability without expiry never gives CapabilityExpired.
C7_CapabilityExpiry ==
    CapabilityResolved =>
        /\ (ReferencedCapability.expiry_lc.some /\ result = Ok)
              => pre.local_lc < ReferencedCapability.expiry_lc.value
        /\ (ReferencedCapability.expiry_lc.some /\ OtherPreconditionsHold
               /\ pre.local_lc >= ReferencedCapability.expiry_lc.value)
              => result = CapabilityExpired
        /\ ~ReferencedCapability.expiry_lc.some => result # CapabilityExpired

\* The boundary: local_lc equal to the expiry, every other precondition met.
C7_Witness ==
    /\ CapabilityResolved /\ ReferencedCapability.expiry_lc.some
    /\ OtherPreconditionsHold
    /\ pre.local_lc = ReferencedCapability.expiry_lc.value
    /\ result = CapabilityExpired

\* C8: the capability of every committed event is not expired at the
\* committing lclock: with expiry_lc = Some(E) the event's lclock is below E.
C8_NotExpiredAtCommitLClock ==
    (ApplyOk /\ ReferencedCapability.expiry_lc.some)
        => returned.lclock < ReferencedCapability.expiry_lc.value

\* The error the order (1) overflow, (2) capability, (3) known suite,
\* (4) suite agreement, (5) expiry, (6) signature, (7) rights, (8) lclock gives.
FirstFailingCheck ==
    IF pre.local_lc = U64_MAX THEN LamportOverflow
    ELSE IF arg.capability \notin DOMAIN pre.capabilities THEN CapabilityNotFound
    ELSE IF arg.alg_suite \notin {CLASSIC, FIPS, PQC, HYBRID} THEN UnsupportedSuite
    ELSE IF arg.alg_suite # ReferencedCapability.alg_suite THEN AlgorithmSuiteMismatch
    ELSE IF ReferencedCapability.expiry_lc.some
            /\ pre.local_lc >= ReferencedCapability.expiry_lc.value THEN CapabilityExpired
    ELSE IF arg.signature # "valid" THEN CryptoInvalidSignature
    ELSE IF (canonicalise(ReferencedCapability.rights) \cap arg.payload.required_rights)
                # arg.payload.required_rights THEN InsufficientRights
    ELSE IF arg.lclock < pre.local_lc THEN InvalidCommandLClock
    ELSE Ok

\* C9: apply returns the error of the earliest failing check in the order
\* (1)..(8) (for payloads whose signed bytes can be produced).
C9_ChecksInOrder ==
    (ApplyReturned /\ arg.payload.signable /\ FirstFailingCheck # Ok)
        => result = FirstFailingCheck

\* C10: a command whose suite tag is outside {0,1,2,3} and whose capability
\* exists is rejected with UnsupportedSuite, whatever the capability's own
\* tag, and nothing is written (the replica not being in overflow).
C10_UnknownSuiteRejected ==
    (CapabilityResolved /\ pre.local_lc # U64_MAX
        /\ arg.alg_suite \notin {CLASSIC, FIPS, PQC, HYBRID})
        => (result = UnsupportedSuite /\ snapshot = pre)

\* What validate_command answers for the command and the local_lc of the last
\* apply; apply returns it when the overflow guard passes and it is an error.
Validation == validate_command(pre.capabilities, arg, pre.local_lc)
ValidationReturned(err) ==
    /\ Validation = err
    /\ pre.local_lc # U64_MAX => (result = err /\ snapshot = pre)

KnownSuite == arg.alg_suite \in {CLASSIC, FIPS, PQC, HYBRID}
SuitesAgree == arg.alg_suite = ReferencedCapability.alg_suite
NotExpired ==
    ReferencedCapability.expiry_lc.some => pre.local_lc < ReferencedCapability.expiry_lc.value
SignatureVerifies == arg.payload.signable /\ arg.signature = "valid"
RightsCovered == arg.payload.required_rights \subseteq canonicalise(ReferencedCapability.rights)

\* A command on an existing capability with the same (known) suite tag and a
\* fresh lclock, whose signature the provider rejects.
SignatureRejected ==
    /\ CapabilityResolved /\ KnownSuite /\ SuitesAgree
    /\ arg.lclock >= pre.local_lc
    /\ arg.payload.signable /\ arg.signature = "forged"

\* C11: a rejected signature gives Crypto(InvalidSignature) for any rights
\* mask and any expiry_lc of the capability, the suite tags being the same
\* and the command's lclock not below local_lc.
C11_InvalidSignatureAnyExpiry == SignatureRejected => Validation = CryptoInvalidSignature

\* What validate_command does with a rejected signature: Crypto(InvalidSignature),
\* for any rights mask, when the capability is not expired at current_lc; on
\* an expired capability it answers CapabilityExpired first.
C11_InvalidSignatureUnlessExpired ==
    SignatureRejected =>
        IF NotExpired THEN ValidationReturned(CryptoInvalidSignature)
        ELSE ValidationReturned(CapabilityExpired)

\* A forged signature on a capability with an expiry still ahead and rights
\* that do not cover the payload.
C11_Witness ==
    /\ SignatureRejected /\ ReferencedCapability.expiry_lc.some /\ NotExpired
    /\ ~RightsCovered
    /\ result = CryptoInvalidSignature

\* C12: with the capability found, the suites agreeing, the capability not
\* expired and the signature verified, validate_command returns
\* InsufficientRights exactly when canonicalise(rights) does not cover
\* required_rights; every committed event's command had them covered.
C12_InsufficientRights ==
    /\ (CapabilityResolved /\ KnownSuite /\ SuitesAgree /\ NotExpired /\ SignatureVerifies)
          => /\ (Validation = InsufficientRights) <=> ~RightsCovered
             /\ ~RightsCovered => ValidationReturned(InsufficientRights)
    /\ ApplyOk => RightsCovered

\* A commit that needs READ on a capability holding only WRITE, and so
\* relies on the implied right.
C12_Witness ==
    /\ ApplyOk /\ arg.payload.required_rights = {READ}
    /\ READ \notin ReferencedCapability.rights /\ WRITE \in ReferencedCapability.rights

\* Every precondition of apply but the one on command.lclock.
PreconditionsBeforeLClock ==
    /\ ApplyReturned /\ pre.local_lc # U64_MAX
    /\ arg.capability \in DOMAIN pre.capabilities
    /\ KnownSuite /\ SuitesAgree /\ NotExpired /\ SignatureVerifies /\ RightsCovered

\* C13: with every other precondition met, apply returns InvalidCommandLClock
\* if and only if command.lclock < local_lc; a command at lclock = local_lc
\* passes validation and commits at local_lc + 1.
C13_StaleLClock ==
    PreconditionsBeforeLClock =>
        /\ (result = InvalidCommandLClock) <=> (arg.lclock < pre.local_lc)
        /\ arg.lclock < pre.local_lc => snapshot = pre
        /\ arg.lclock = pre.local_lc =>
              /\ Validation = Ok
              /\ local_lc = pre.local_lc + 1
              /\ result = Ok => returned.lclock = pre.local_lc + 1

\* A command at exactly the kernel's lclock, above zero, that commits.
C13_Witness ==
    /\ PreconditionsBeforeLClock /\ ApplyOk
    /\ arg.lclock = pre.local_lc /\ pre.local_lc > 0
    /\ returned.lclock = pre.local_lc + 1

\* C14: with the capability found and both tags among the defined suites,
\* validate_command returns AlgorithmSuiteMismatch if and only if the tags
\* differ; every committed event carries its capability's suite.
C14_SuiteAgreement ==
    /\ (CapabilityResolved /\ KnownSuite
           /\ ReferencedCapability.alg_suite \in {CLASSIC, FIPS, PQC, HYBRID})
          => /\ (Validation = AlgorithmSuiteMismatch) <=> ~SuitesAgree
             /\ ~SuitesAgree => ValidationReturned(AlgorithmSuiteMismatch)
    /\ ApplyOk => (returned.alg_suite = ReferencedCapability.alg_suite /\ SuitesAgree)

\* A command in a defined suite on a capability of another defined suite,
\* with a forged signature as well.
C14_Witness ==
    /\ CapabilityResolved /\ KnownSuite /\ ~SuitesAgree
    /\ ReferencedCapability.alg_suite \in {CLASSIC, FIPS, PQC, HYBRID}
    /\ arg.signature = "forged" /\ pre.local_lc # U64_MAX
    /\ result = AlgorithmSuiteMismatch

\* ---------------------------------------------------------- append_delta
\* The delta and the lclock_new append_delta was given: by its caller, or by
\* apply (the runtime's delta, stamped with the event's lclock).
DeltaCalled == op = "append_delta"
DeltaApplied ==
    /\ ApplyReturned /\ pre.local_lc # U64_MAX /\ Validation = Ok
    /\ arg.payload.exec.err = Ok
GivenLClock ==
    IF DeltaCalled THEN arg.lclock_new ELSE Max(arg.lclock, pre.local_lc + 1)
GivenDelta ==
    IF DeltaCalled THEN arg.delta
    ELSE [new_entities |->
              [i \in 1..Len(arg.payload.exec.delta.new_entities) |->
                  [arg.payload.exec.delta.new_entities[i] EXCEPT !.lclock = GivenLClock]],
          updated_entities |->
              [i \in 1..Len(arg.payload.exec.delta.updated_entities) |->
                  [arg.payload.exec.delta.updated_entities[i] EXCEPT !.lclock = GivenLClock]]]
GivenEntities == GivenDelta.new_entities \o GivenDelta.updated_entities
Range(seq) == { seq[i] : i \in 1..Len(seq) }

\* C15: append_delta is all-or-nothing: on an InvariantViolation the entities
\* (and everything else) are as before the call; entities are written only
\* by a call that returns Ok, and then every entity of the delta is stored.
C15_AppendDeltaAllOrNothing ==
    DeltaCalled =>
        /\ result \in InvariantViolations => snapshot = pre
        /\ entities # pre.entities => result = Ok
        /\ result = Ok =>
              /\ DOMAIN entities = DOMAIN pre.entities \cup { e.id : e \in Range(GivenEntities) }
              /\ \A id \in DOMAIN pre.entities \ { e.id : e \in Range(GivenEntities) } :
                    entities[id] = pre.entities[id]
              /\ \A id \in { e.id : e \in Range(GivenEntities) } :
                    entities[id] \in Range(GivenEntities)

\* A delta whose new entities and first updated entity pass and whose last
\* updated entity does not: rejected, nothing written.
C15_Witness ==
    /\ DeltaCalled /\ result \in {InvVersion, InvLClock}
    /\ Len(arg.delta.new_entities) >= 1 /\ Len(arg.delta.updated_entities) = 2
    /\ arg.delta.updated_entities[1].id \in DOMAIN pre.entities
    /\ arg.delta.updated_entities[1].version
           = pre.entities[arg.delta.updated_entities[1].id].version + 1
    /\ entities = pre.entities

\* C16: append_delta returns InvariantViolation when a new entity's CID is
\* already a key and when an updated entity's CID is not a key; the CIDs an
\* event lists as new were absent before the apply, those it lists as
\* updated were present.
C16_CidUniqueness ==
    /\ (DeltaCalled \/ DeltaApplied) =>
          /\ (\E e \in Range(GivenDelta.new_entities) : e.id \in DOMAIN pre.entities)
                => (result \in InvariantViolations /\ snapshot = pre)
          /\ (\E e \in Range(GivenDelta.updated_entities) : e.id \notin DOMAIN pre.entities)
                => (result \in InvariantViolations /\ snapshot = pre)
    /\ ApplyOk =>
          /\ \A cid \in Range(returned.new_entities) : cid \notin DOMAIN pre.entities
          /\ \A cid \in Range(returned.updated_entities) : cid \in DOMAIN pre.entities

\* An apply whose runtime's delta creates one entity and updates another.
C16_Witness ==
    /\ ApplyOk
    /\ Len(returned.new_entities) = 1 /\ Len(returned.updated_entities) = 1
    /\ returned.new_entities[1] \notin DOMAIN pre.entities
    /\ returned.updated_entities[1] \in DOMAIN pre.entities

\* C17: an update is accepted only with version = stored version + 1 (any
\* other version gives InvariantViolation and changes nothing); the stored
\* version of an entity changes only by +1 steps.
C17_VersionPlusOne ==
    (DeltaCalled \/ DeltaApplied) =>
        /\ (/\ \A e \in Range(GivenDelta.new_entities) : e.id \notin DOMAIN pre.entities
            /\ \E e \in Range(GivenDelta.updated_entities) :
                  e.id \in DOMAIN pre.entities /\ e.version # pre.entities[e.id].version + 1)
              => (result \in InvariantViolations /\ snapshot = pre)
        /\ \A id \in DOMAIN pre.entities :
              /\ id \in DOMAIN entities
              /\ entities[id].version # pre.entities[id].version
                    => entities[id].version = pre.entities[id].version + 1

\* C18: after a successful apply every entity the event lists is stored with
\* header.lclock = event.lclock, whatever lclock the runtime gave it; the
\* runtime's lclock values never make apply fail with the lclock-mismatch
\* InvariantViolation.
C18_EntitiesStampedWithEventLClock ==
    /\ ApplyOk =>
          \A cid \in Range(returned.new_entities) \cup Range(returned.updated_entities) :
              cid \in DOMAIN entities /\ entities[cid].lclock = returned.lclock
    /\ ApplyReturned => result # InvLClock

\* A commit of a delta whose entities the runtime stamped with another lclock.
C18_Witness ==
    /\ ApplyOk
    /\ Len(returned.new_entities) >= 1 /\ Len(returned.updated_entities) >= 1
    /\ \A e \in Range(arg.payload.exec.delta.new_entities) : e.lclock # returned.lclock
    /\ \A e \in Range(arg.payload.exec.delta.updated_entities) : e.lclock # returned.lclock

\* ------------------------------------------------------------------ ingest
Ingested == op = "process_incoming_event"

\* C19: process_incoming_event returns Ok, sets local_lc to
\* max(local_lc, e.lclock), local_vc[r] to max(local_vc[r], e.vclock[r]) for
\* every r of e.vclock, and keeps every other entry of local_vc.
C19_Ingest ==
    Ingested =>
        /\ result = Ok
        /\ local_lc = Max(pre.local_lc, arg.lclock)
        /\ DOMAIN local_vc = DOMAIN pre.local_vc \cup DOMAIN arg.vclock
        /\ \A r \in DOMAIN arg.vclock :
              local_vc[r] = Max(vc_get(pre.local_vc, r), arg.vclock[r])
        /\ \A r \in DOMAIN pre.local_vc \ DOMAIN arg.vclock : local_vc[r] = pre.local_vc[r]

\* An event behind the kernel on lclock and on one vclock entry, ahead on
\* another.
C19_Witness ==
    /\ Ingested /\ arg.lclock < pre.local_lc
    /\ \E r \in DOMAIN arg.vclock \cap DOMAIN pre.local_vc : arg.vclock[r] < pre.local_vc[r]
    /\ \E r \in DOMAIN arg.vclock : arg.vclock[r] > vc_get(pre.local_vc, r)

\* C20: local_lc never decreases, and strictly increases on every successful
\* apply.
C20_LamportMonotone ==
    [][/\ local_lc' >= local_lc
       /\ (op' = "apply" /\ result' = Ok) => local_lc' > local_lc]_vars

\* A successful apply of a command at the kernel's own lclock, after an
\* ingest has raised it.
C20_Witness ==
    /\ ApplyOk /\ pre.local_lc > 0 /\ pre.event_log = <<>>
    /\ arg.lclock = pre.local_lc /\ local_lc > pre.local_lc

\* --------------------------------------------------------------- event log
\* C21: along event_log the lclock of consecutive events strictly increases,
\* and so does the local replica's entry of their vclock, whatever ingests
\* happen between the applies.
C21_LogOrdered ==
    \A i \in 1..(Len(event_log) - 1) :
        /\ event_log[i].lclock < event_log[i + 1].lclock
        /\ replica_id \in DOMAIN event_log[i].vclock
        /\ replica_id \in DOMAIN event_log[i + 1].vclock
        /\ event_log[i].vclock[replica_id] < event_log[i + 1].vclock[replica_id]

\* Two commits with an ingest between them that put the local replica's
\* entry of local_vc above local_lc.
C21_Witness ==
    /\ ApplyOk /\ Len(event_log) >= 2
    /\ vc_get(pre.local_vc, replica_id) > pre.local_lc

\* ---------------------------------------------------------- event hashing
Hashed == op = "get_event_hash_input"
Materialised == op = "materialise_event" /\ result = Ok

SeqPerms(seq) ==
    { [i \in 1..Len(seq) |-> seq[p[i]]] : p \in Permutations(1..Len(seq)) }

\* C22: the hash input is the same for every permutation of the new-entity
\* CIDs, every permutation of the updated-entity CIDs and every insertion
\* order of the vclock entries; it differs when the reserved bytes differ.
C22_HashInputOrderInvariant ==
    Hashed =>
        /\ \A n \in SeqPerms(arg.new_cids), u \in SeqPerms(arg.updated_cids),
              v \in SeqPerms(arg.vclock_inserts) :
              get_event_hash_input(arg.caused_by, arg.lclock, arg.replica, arg.alg_suite,
                                   n, u, vclock_from_inserts(v), arg.reserved) = result
        /\ \A x \in HashReserved \ {arg.reserved} :
              get_event_hash_input(arg.caused_by, arg.lclock, arg.replica, arg.alg_suite,
                                   arg.new_cids, arg.updated_cids,
                                   vclock_from_inserts(arg.vclock_inserts), x) # result

\* Three new CIDs given out of order, two updated ones and a two-entry vclock.
C22_Witness ==
    /\ Hashed /\ arg.new_cids = <<3, 513, 2>> /\ Len(arg.updated_cids) = 2
    /\ Len(arg.vclock_inserts) = 2 /\ arg.reserved # <<>>

\* The layout of the hashed bytes, position by position.
Slice(bytes, after, len) == SubSeq(bytes, after + 1, after + len)
\* Byte i (from 1, least significant first) of the number n.
RECURSIVE ByteOf(_, _)
ByteOf(n, i) == IF i = 1 THEN n % 256 ELSE ByteOf(n \div 256, i - 1)
LittleEndian(bytes, after, len, n) ==
    \A i \in 1..len : bytes[after + i] = ByteOf(n, i)
\* len(cids) CIDs of 32 bytes from position after + 1 on: the given CIDs, each
\* once, in lexicographic order of their bytes.
CidSection(bytes, after, cids) ==
    \E p \in Permutations(1..Len(cids)) :
        /\ \A j \in 1..Len(cids) :
              Slice(bytes, after + CID_LEN * (j - 1), CID_LEN) = cid_bytes(cids[p[j]])
        /\ \A j \in 1..(Len(cids) - 1) :
              ~lex_less(Slice(bytes, after + CID_LEN * j, CID_LEN),
                        Slice(bytes, after + CID_LEN * (j - 1), CID_LEN))
\* The vclock entries from position after + 1 on: ReplicaID ascending, each a
\* 16-byte id and an 8-byte little-endian value.
VClockSection(bytes, after, vclock) ==
    \E ks \in [1..Cardinality(DOMAIN vclock) -> DOMAIN vclock] :
        /\ \A i, j \in DOMAIN ks : i < j => ks[i] < ks[j]
        /\ \A j \in DOMAIN ks :
              /\ Slice(bytes, after + (REPLICA_LEN + U64_LEN) * (j - 1), REPLICA_LEN)
                    = replica_bytes(ks[j])
              /\ LittleEndian(bytes, after + (REPLICA_LEN + U64_LEN) * (j - 1) + REPLICA_LEN,
                              U64_LEN, vclock[ks[j]])
HashLayout(bytes, caused_by, lclock, replica, suite, new_cids, updated_cids, vclock, reserved) ==
    LET identity_end == CID_LEN + U64_LEN + REPLICA_LEN + 1
        new_end == identity_end + CID_LEN * Len(new_cids)
        updated_end == new_end + CID_LEN * Len(updated_cids)
        vclock_end == updated_end + 1 + (REPLICA_LEN + U64_LEN) * Cardinality(DOMAIN vclock)
    IN /\ Len(bytes) = vclock_end + U32_LEN + Len(reserved)
       /\ Slice(bytes, 0, CID_LEN) = cid_bytes(caused_by)
       /\ LittleEndian(bytes, CID_LEN, U64_LEN, lclock)
       /\ Slice(bytes, CID_LEN + U64_LEN, REPLICA_LEN) = replica_bytes(replica)
       /\ bytes[identity_end] = suite
       /\ CidSection(bytes, identity_end, new_cids)
       /\ CidSection(bytes, new_end, updated_cids)
       /\ bytes[updated_end + 1] = 1
       /\ VClockSection(bytes, updated_end + 1, vclock)
       /\ LittleEndian(bytes, vclock_end, U32_LEN, Len(reserved))
       /\ Slice(bytes, vclock_end + U32_LEN, Len(reserved)) = reserved

\* C23: the hashed bytes are command.id, lclock (8 bytes little-endian), the
\* replica id, the suite tag, the new CIDs sorted, the updated CIDs sorted,
\* the byte 1, the vclock entries by ReplicaID ascending (id, 8-byte
\* little-endian value), the 4-byte little-endian length of reserved, and
\* reserved; an event materialised by the kernel hashes them with the
\* kernel's own replica id and its id is the provider's digest of them.
C23_HashInputLayout ==
    /\ Hashed =>
          HashLayout(result, arg.caused_by, arg.lclock, arg.replica, arg.alg_suite,
                     arg.new_cids, arg.updated_cids, vclock_from_inserts(arg.vclock_inserts),
                     arg.reserved)
    /\ Materialised =>
          /\ returned.id.suite = arg.command.alg_suite
          /\ HashLayout(returned.id.data, arg.command.id, arg.lclock_new, replica_id,
                        arg.command.alg_suite,
                        [i \in 1..Len(arg.delta.new_entities) |-> arg.delta.new_entities[i].id],
                        [i \in 1..Len(arg.delta.updated_entities) |->
                            arg.delta.updated_entities[i].id],
                        arg.vc_new, <<>>)

\* An lclock and a vclock value of more than one byte, CIDs to be sorted.
C23_Witness ==
    /\ Hashed /\ arg.lclock = 258 /\ arg.new_cids = <<3, 513, 2>>
    /\ arg.vclock_inserts = <<<<TEST_REPLICA_ID_2, 258>>, <<TEST_REPLICA_ID_1, 0>>>>
    /\ arg.reserved = <<1, 2, 3>>

\* ------------------------------------------------------------ merge_into
Merged == op = "merge_into"

\* C24: merge_into is commutative, idempotent and monotone (no entry of the
\* receiver decreases, no key is dropped).
C24_MergeLaws ==
    Merged =>
        /\ result = merge_into(arg.other, arg.self)
        /\ merge_into(arg.self, arg.self) = arg.self
        /\ merge_into(result, arg.other) = result
        /\ DOMAIN arg.self \subseteq DOMAIN result
        /\ \A r \in DOMAIN arg.self : result[r] >= arg.self[r]
        /\ \A r \in DOMAIN arg.other : r \in DOMAIN result /\ result[r] >= arg.other[r]

\* Two clocks, each ahead of the other on one replica, the other with a key
\* the receiver lacks.
C24_Witness ==
    /\ Merged
    /\ \E r \in DOMAIN arg.self \cap DOMAIN arg.other : arg.self[r] > arg.other[r]
    /\ \E r \in DOMAIN arg.self \cap DOMAIN arg.other : arg.self[r] < arg.other[r]
    /\ DOMAIN arg.other \ DOMAIN arg.self # {}

\* ------------------------------------------------------------------ rights
RightsChecked == op = "sufficient"

\* C25: canonicalise(mask) contains mask, sets READ when WRITE is set and
\* changes no other bit, is idempotent and monotone; sufficient(have, need)
\* is (canonicalise(have) & need) = need, the same for have and for
\* canonicalise(have); an extension bit is never implied.
C25_RightsAlgebra ==
    RightsChecked =>
        /\ arg.have \subseteq result.canonical
        /\ WRITE \in arg.have => READ \in result.canonical
        /\ result.canonical \ {READ} = arg.have \ {READ}
        /\ READ \in result.canonical => (READ \in arg.have \/ WRITE \in arg.have)
        /\ canonicalise(result.canonical) = result.canonical
        /\ \A m \in Masks : arg.have \subseteq m => result.canonical \subseteq canonicalise(m)
        /\ result.sufficient <=> ((result.canonical \cap arg.need) = arg.need)
        /\ result.sufficient <=> sufficient(result.canonical, arg.need)
        /\ \A b \in arg.need \cap (16..31) : b \notin arg.have => ~result.sufficient

\* WRITE held without READ, READ and an extension bit needed.
C25_Witness ==
    /\ RightsChecked /\ WRITE \in arg.have /\ READ \notin arg.have
    /\ READ \in arg.need /\ 16 \in arg.need /\ 16 \in arg.have /\ result.sufficient

\* ----------------------------------------------------------------- runtime
RuntimeFailed ==
    /\ ApplyReturned /\ pre.local_lc # U64_MAX /\ Validation = Ok
    /\ arg.payload.exec.err # Ok

\* C26: when the runtime returns any KernelError for a validated command,
\* apply returns RuntimeError.
C26_RuntimeErrorSurfaced == RuntimeFailed => result = RuntimeError

\* ---------------------------------------------------------------- overflow
\* C27: once local_lc is u64::MAX it stays there under every apply and
\* process_incoming_event, every apply fails, and event_log and entities
\* never change again.
C27_OverflowPermanent ==
    [][local_lc = U64_MAX =>
          /\ local_lc' = U64_MAX
          /\ event_log' = event_log
          /\ entities' = entities
          /\ op' = "apply" => result' # Ok]_vars

\* A refused apply in the overflow state reached by commits, the log as the
\* last commit left it.
C27_Witness ==
    /\ ApplyReturned /\ pre.local_lc = U64_MAX /\ result # Ok
    /\ Len(event_log) >= 1 /\ event_log[Len(event_log)].lclock = U64_MAX
    /\ arg.lclock = U64_MAX /\ Validation = Ok

\* C28: every entity is stored under its own header.id, and a call leaves
\* each stored key with the id it had.
C28_EntityIdStable ==
    /\ \A k \in DOMAIN entities : entities[k].id = k
    /\ (DeltaCalled \/ ApplyReturned) =>
          \A k \in DOMAIN pre.entities :
              k \in DOMAIN entities /\ entities[k].id = pre.entities[k].id

\* A commit that creates one entity and replaces another by its next version.
C28_Witness ==
    /\ ApplyOk /\ Len(returned.new_entities) = 1 /\ Len(returned.updated_entities) = 1
    /\ entities[returned.updated_entities[1]].version
          = pre.entities[returned.updated_entities[1]].version + 1
    /\ entities[returned.new_entities[1]].id = returned.new_entities[1]

\* C29: process_incoming_event changes local_lc and local_vc only, as
\* e.lclock and e.vclock determine; event_log, entities and capabilities
\* are as before, whatever the event's other fields are.
C29_IngestFrame ==
    Ingested =>
        /\ event_log = pre.event_log
        /\ entities = pre.entities
        /\ capabilities = pre.capabilities
        /\ local_lc = Max(pre.local_lc, arg.lclock)
        /\ local_vc = [r \in DOMAIN pre.local_vc \cup DOMAIN arg.vclock |->
                          Max(vc_get(pre.local_vc, r), vc_get(arg.vclock, r))]

\* An event naming this replica, an undefined suite, entities and reserved
\* bytes, ingested by a kernel with a commit in its log.
C29_Witness ==
    /\ Ingested /\ arg.new_entities # <<>> /\ arg.reserved # <<>>
    /\ arg.alg_suite \notin {CLASSIC, FIPS, PQC, HYBRID} /\ arg.replica = replica_id
    /\ pre.event_log # <<>> /\ arg.lclock > pre.local_lc

\* C30: the event of a successful apply has the kernel's replica_id, the
\* command's id as caused_by, the command's suite, the CIDs of the delta's
\* new and updated entities in the delta's order, and reserved empty.
C30_EventContent ==
    ApplyOk =>
        /\ returned.replica = replica_id
        /\ returned.caused_by = arg.id
        /\ returned.alg_suite = arg.alg_suite
        /\ returned.new_entities
              = [i \in 1..Len(arg.payload.exec.delta.new_entities) |->
                    arg.payload.exec.delta.new_entities[i].id]
        /\ returned.updated_entities
              = [i \in 1..Len(arg.payload.exec.delta.updated_entities) |->
                    arg.payload.exec.delta.updated_entities[i].id]
        /\ returned.reserved = <<>>

\* A command of another replica whose delta lists its new entities in
\* descending CID order.
C30_Witness ==
    /\ ApplyOk /\ arg.replica # replica_id /\ Len(returned.new_entities) = 2
    /\ returned.new_entities[1] > returned.new_entities[2]

\* ------------------------------------------------- local vclock component
\* C31 as stated: for a successful apply with command.lclock <= local_lc + 1
\* the event's vclock entry of the local replica is the prior local_vc entry
\* (missing = 0) plus 1.
C31_LocalComponentIncrements ==
    (ApplyOk /\ arg.lclock <= pre.local_lc + 1)
        => returned.vclock[replica_id] = vc_get(pre.local_vc, replica_id) + 1

\* C31: for a successful apply with command.lclock <= local_lc + 1 the
\* event's vclock entry of the local replica is the prior local_lc plus 1,
\* the event's lclock; it is the prior local_vc entry plus 1 exactly when
\* that entry equals local_lc, which an ingest can undo.
C31_LocalComponentIsLClock ==
    (ApplyOk /\ arg.lclock <= pre.local_lc + 1) =>
        /\ returned.vclock[replica_id] = pre.local_lc + 1
        /\ returned.vclock[replica_id] = returned.lclock
        /\ (returned.vclock[replica_id] = vc_get(pre.local_vc, replica_id) + 1)
              <=> (vc_get(pre.local_vc, replica_id) = pre.local_lc)

\* A commit after an ingest raised local_lc past the local replica's entry of
\* local_vc.
C31_Witness ==
    /\ ApplyOk /\ arg.lclock <= pre.local_lc + 1
    /\ vc_get(pre.local_vc, replica_id) < pre.local_lc
    /\ returned.vclock[replica_id] = pre.local_lc + 1

\* ------------------------------------------- capabilities and entity keys
\* C32: no apply (successful or failed) and no process_incoming_event changes
\* the capability map, and neither removes a key of the entity map.
C32_CapabilitiesAndKeysKept ==
    (ApplyReturned \/ Ingested) =>
        /\ capabilities = pre.capabilities
        /\ DOMAIN pre.entities \subseteq DOMAIN entities

\* An ingest on a kernel that holds entities and has committed events.
C32_Witness ==
    /\ Ingested
    /\ DOMAIN pre.entities # {}
    /\ pre.event_log # <<>>
    /\ DOMAIN entities = DOMAIN pre.entities
    /\ DOMAIN capabilities = {1, 2, 3}

\* ------------------------------------------------------------- replay
\* C33: no command is committed twice: the event log never holds two events
\* with the same caused_by, so an apply of a command whose id already caused
\* a logged event does not return Ok.
C33_NoCommandCommittedTwice ==
    /\ \A i, j \in 1..Len(event_log) :
          i # j => event_log[i].caused_by # event_log[j].caused_by
    /\ ApplyReturned /\ (\E i \in 1..Len(pre.event_log) : pre.event_log[i].caused_by = arg.id)
          => result # Ok

\* ------------------------------------------------- clocks under ingest
\* C34: in every state reached by apply and process_incoming_event the local
\* replica's own entry of local_vc (missing = 0) is at most local_lc.
C34_OwnEntryBoundedByLamport == vc_get(local_vc, replica_id) <= local_lc

\* C35: an ingest never takes a replica whose local_lc is below u64::MAX to
\* local_lc = u64::MAX, the state in which every apply fails with the
\* overflow error, so a valid command is still committed after any ingests.
C35_IngestNeverOverflows ==
    (Ingested /\ pre.local_lc < U64_MAX) => local_lc < U64_MAX

\* ------------------------------------------------- version at u64::MAX
\* C36: the stored version of an entity never goes down, and a delta that
\* updates an entity whose stored version is u64::MAX is rejected with
\* InvariantViolation: the call neither wraps and accepts nor aborts.
C36_VersionNeverDown ==
    (DeltaCalled \/ ApplyReturned) =>
        /\ \A id \in DOMAIN pre.entities :
              id \in DOMAIN entities /\ entities[id].version >= pre.entities[id].version
        /\ (DeltaCalled \/ DeltaApplied)
              /\ (\E e \in Range(GivenDelta.updated_entities) :
                      e.id \in DOMAIN pre.entities /\ pre.entities[e.id].version = U64_MAX)
              => result \in InvariantViolations

\* ------------------------------------------------- a CID named twice
\* C37: a delta that names a CID twice among its new entities, or twice among
\* its updated entities, is rejected with InvariantViolation; so no logged
\* event lists a CID twice, and every entity of an accepted delta is stored
\* as the delta gave it.
C37_DuplicateCidRejected ==
    /\ (DeltaCalled \/ DeltaApplied) =>
          \A part \in {GivenDelta.new_entities, GivenDelta.updated_entities} :
              (\E i, j \in 1..Len(part) : i # j /\ part[i].id = part[j].id)
                  => result \in InvariantViolations
    /\ \A k \in 1..Len(event_log) :
          \A part \in {event_log[k].new_entities, event_log[k].updated_entities} :
              \A i, j \in 1..Len(part) : i # j => part[i] # part[j]
    /\ (DeltaCalled /\ result = Ok) =>
          \A e \in Range(GivenEntities) : entities[e.id] = e

\* ------------------------------------------------- events after an ingest
\* C38: once process_incoming_event(e) has run, every event apply produces
\* from then on has an lclock strictly greater than e.lclock.
C38_EventsAfterIngestAreLater ==
    \A l \in U64 :
        []((Ingested /\ arg.lclock = l) => [](ApplyOk => returned.lclock > l))

\* A commit on a kernel whose local_lc only ingests have raised.
C38_Witness ==
    /\ ApplyOk
    /\ pre.event_log = <<>>
    /\ pre.entities = [c \in {} |-> 0]
    /\ TEST_REPLICA_ID_2 \in DOMAIN pre.local_vc
    /\ pre.local_lc = U64_MAX - 1
    /\ arg.lclock = pre.local_lc
    /\ returned.lclock = U64_MAX

\* ------------------------------------------------- suites of logged events
\* C39: every logged event has an alg_suite tag in {0,1,2,3}; a command with
\* another tag is never committed, not even on a capability that carries the
\* same undefined tag.
C39_LoggedSuitesDefined ==
    /\ \A i \in 1..Len(event_log) : event_log[i].alg_suite \in {CLASSIC, FIPS, PQC, HYBRID}
    /\ (ApplyReturned /\ arg.alg_suite \notin {CLASSIC, FIPS, PQC, HYBRID})
          => (result # Ok /\ event_log = pre.event_log)

\* A signed command with the undefined tag 7 on the unexpired capability that
\* carries tag 7 and every right, refused at the suite lookup.
C39_Witness ==
    /\ CapabilityResolved /\ SuitesAgree /\ NotExpired
    /\ arg.alg_suite = 7 /\ ReferencedCapability.alg_suite = 7
    /\ arg.signature = "valid" /\ arg.payload.signable
    /\ arg.lclock >= pre.local_lc /\ pre.local_lc # U64_MAX
    /\ result = UnsupportedSuite

\* ------------------------------------------------- new and updated CIDs
\* C40: two events that agree on command id, lclock, replica, suite, vclock
\* and reserved bytes and differ in which CIDs they list as new and which as
\* updated (up to the order within each list) have different hash inputs.
C40_HashInputSeparatesNewFromUpdated ==
    Hashed =>
        \A n \in HashCidLists, u \in HashCidLists :
            (n \notin SeqPerms(arg.new_cids) \/ u \notin SeqPerms(arg.updated_cids))
                => get_event_hash_input(arg.caused_by, arg.lclock, arg.replica, arg.alg_suite,
                                        n, u, vclock_from_inserts(arg.vclock_inserts),
                                        arg.reserved) # result

====
